---- MODULE Spec2Model ----
(***************************************************************************)
(* Model of pam.samplers.tour: TourPlanner.sequence_stops followed by      *)
(* TourPlanner.apply, with the ActivityDuration helpers they call.         *)
(*                                                                         *)
(* Units.  Locations are points on a line, in metres.  To keep the float   *)
(* arithmetic of the source exact, distances are held in tenths of a metre *)
(* (scale 1.4 = 14/10) and durations in ticks of 1/1250 s (speed           *)
(* 50000/3600 m/s = 125/9 m/s, so distance/speed = tenths * 9 ticks).      *)
(* Plan times are datetimes <<day, hour, minute>> as built by mtdt.        *)
(***************************************************************************)
EXTENDS Integers, Sequences, FiniteSets, TLC

\* ------------------------------------------------------------------ bounds
MaxStops == 2

\* calls made on one FrequencySampler
MaxCalls == 2

\* longest range of bins given to a PivotDistributionSampler
MaxBins == 3

\* calls of sample() on one PivotDistributionSampler
MaxSamples == 2

\* most plans in the population of a PlanClusters
MaxPlans == 3

\* ------------------------------------------------------- input enumeration
Hours == {8, 23, 24}

Minutes == {0, 20, 44}

Zones == {"A", "B", "C"}

\* facility_sampler: the point locations it can return for each zone
FACILITIES == [z \in Zones |->
                 CASE z = "A" -> {0}
                   [] z = "B" -> {500, 2000}
                   [] z = "C" -> {10000, 60000}]

\* activity_params: (o_activity, d_activity) pairs handed to the constructor
ActivityParams == {<<"depot", "delivery">>, <<"depot", "depot">>,
                   <<"return_origin", "delivery">>}

\* the "no zone" result of threshold_sample (Python None)
NoZone == "None"

\* threshold_matrix is None
NoMatrix == [z \in {} |-> 0]

\* threshold_matrix: cost from the row's origin zone to every zone
THRESHOLD_MATRIX == [o \in Zones |-> [d \in Zones |->
                       IF o = d THEN 0
                       ELSE IF "A" \in {o, d} /\ "B" \in {o, d} THEN 5
                       ELSE IF "B" \in {o, d} /\ "C" \in {o, d} THEN 20
                       ELSE 30]]

ThresholdValues == {-1, 5}

\* d_dist[d_freq]: the weight of each destination zone
D_FREQ == [z \in Zones |-> CASE z = "A" -> 1 [] z = "B" -> 3 [] z = "C" -> 2]

\* ---------------------------------------------------------------- helpers
Abs(x) == IF x < 0 THEN -x ELSE x

Max2(a, b) == IF a >= b THEN a ELSE b

Min2(a, b) == IF a <= b THEN a ELSE b

\* ticks per second
TICKS == 1250

\* int(x / 60) for a duration x in ticks: whole minutes, truncated
IntDiv60(x) == x \div (60 * TICKS)

\* ------------------------------------------------- pam.utils / pam.variables
MINUTES_PER_DAY == 1440

\* minutes_to_datetime: datetime(1900, 1, 1 + days, hours, minutes)
mtdt(minutes) == <<1 + (minutes \div MINUTES_PER_DAY),
                   (minutes % MINUTES_PER_DAY) \div 60,
                   minutes % 60>>

\* END_OF_DAY: datetime(1900, 1, 2, 0, 0)
END_OF_DAY == <<2, 0, 0>>

\* datetime >= datetime
DtGeq(a, b) ==
    \/ a[1] > b[1]
    \/ a[1] = b[1] /\ a[2] > b[2]
    \/ a[1] = b[1] /\ a[2] = b[2] /\ a[3] >= b[3]

\* ------------------------------------------------------- ActivityDuration
SCALE10 == 14

\* o.distance(d) * scale, in tenths of a metre
model_distance(o, d) == Abs(o - d) * SCALE10

SPEED_INV == 9

\* distance / speed, in ticks
model_journey_time(distance) == distance * SPEED_INV

MAXI == 3600 * TICKS

MINI == 600 * TICKS

\* model_stop_time that is not held up to mini: the time left under maxi
model_stop_time_Unbounded(time, maxi, mini) == time - maxi

\* model_stop_time with min and max exchanged
model_stop_time_Swapped(time, maxi, mini) == Min2(mini, Max2(time, maxi))

\* max([mini, min([time, maxi])])
model_stop_time(time, maxi, mini) == Max2(mini, Min2(time, maxi))

\* (stop_duration, start_tm, end_tm)
model_activity_duration(o, d, endtm) ==
    LET trip_distance == model_distance(o, d)
        trip_duration == model_journey_time(trip_distance)
    IN  [stop_duration |-> model_stop_time(trip_duration, MAXI, MINI),
         start_tm      |-> endtm,
         end_tm        |-> endtm + IntDiv60(trip_duration)]

\* ------------------------------------------------------- FrequencySampler
\* sample(): the values random.choices can return (positive weight)
FrequencySampler_sample(dist, freq) == {z \in dist : freq[z] > 0}

\* threshold_sample without the test for an empty reduced distribution
threshold_sample_NoEmptyCheck(dist, freq, row, value) ==
    LET d_list      == {z \in DOMAIN row : row[z] <= value}
        d_threshold == {z \in dist : z \in d_list}
    IN  {z \in d_threshold : freq[z] > 0}

\* threshold_sample that keeps only the costs strictly below the threshold
threshold_sample_Exclusive(dist, freq, row, value) ==
    LET d_list      == {z \in DOMAIN row : row[z] < value}
        d_threshold == {z \in dist : z \in d_list}
    IN  IF Cardinality(d_threshold) = 0
        THEN {NoZone}
        ELSE {z \in d_threshold : freq[z] > 0}

\* threshold_sample that draws from the whole distribution when nothing is
\* within the threshold
threshold_sample_Fallback(dist, freq, row, value) ==
    LET d_list      == {z \in DOMAIN row : row[z] <= value}
        d_threshold == {z \in dist : z \in d_list}
    IN  IF Cardinality(d_threshold) = 0
        THEN {z \in dist : freq[z] > 0}
        ELSE {z \in d_threshold : freq[z] > 0}

\* threshold_sample(): the values it can return; NoZone when the reduced
\* distribution is empty
threshold_sample(dist, freq, row, value) ==
    LET d_list      == {z \in DOMAIN row : row[z] <= value}
        d_threshold == {z \in dist : z \in d_list}
    IN  IF Cardinality(d_threshold) = 0
        THEN {NoZone}
        ELSE {z \in d_threshold : freq[z] > 0}

\* ------------------------------------------------------ FacilitySampler
\* facility_sampler.sample(zone, activity): the locations it can return;
\* empty when the zone cannot be resolved (the call raises)
facility_sample(zone, activity) ==
    IF zone \in DOMAIN FACILITIES THEN FACILITIES[zone] ELSE {}

\* ------------------------------------------------------- plan entities
Activity(seq, act, area, loc, start_time, end_time) ==
    [kind |-> "Activity", seq |-> seq, act |-> act, area |-> area, loc |-> loc,
     start_time |-> start_time, end_time |-> end_time]

Leg(seq, mode, start_area, end_area, start_loc, end_loc, start_time, end_time) ==
    [kind |-> "Leg", seq |-> seq, mode |-> mode,
     start_area |-> start_area, end_area |-> end_area,
     start_loc |-> start_loc, end_loc |-> end_loc,
     start_time |-> start_time, end_time |-> end_time]

\* agent.add, called once for each of the entities, in order: the plan keeps
\* what it holds and takes the new entities at its end
agent_add(p, entities) == p \o entities

\* Python list indexing: list[i] raises IndexError outside -len..len-1
PyIndexOk(list, i) == -Len(list) <= i /\ i < Len(list)

PyIndex(list, i) == IF i >= 0 THEN list[i + 1] ELSE list[Len(list) + i + 1]

\* ------------------------------------------------------------------ state
VARIABLES
    stops, hour, minute, o_zone, o_activity, d_activity,   \* TourPlanner fields
    threshold_matrix, threshold_value,
    d_seq,                      \* sequence_stops: the draws, in draw order
    o_loc, d_zones, d_locs,     \* sequence_stops result = apply arguments
    plan,                       \* the agent's plan: entities in add() order
    pc,                         \* position of the caller / of apply
    k, stop_duration, start_tm, end_tm,   \* locals of apply
    raised,                     \* the exception that ended the run, if any
    \* a FrequencySampler on its own
    distribution, frequency, fs_threshold_matrix, fs_threshold_value,
    fs_result,                  \* what the last call returned
    fs_raised,                  \* the exception the last call raised, if any
    fs_warnings,                \* number of warnings.warn calls so far
    fs_calls,                   \* number of calls so far
    \* a PivotDistributionSampler on its own
    bins, pivots, total, demand,
    pivots_supplied,            \* the pivots mapping as the caller built it
    pv_pc,                      \* "new", "built" or "raised"
    pv_raised,                  \* the exception last raised, if any
    pv_result,                  \* what the last sample() returned
    pv_calls,                   \* number of sample() calls so far
    \* a PlanClusters on its own
    pc_distances,               \* the distances matrix, in half steps
    pc_idx,                     \* index of the query plan in self.plans
    pc_n,                       \* the n of get_closest_matches
    pc_result,                  \* the indices of the plans returned
    pc_pc,                      \* "new" or "returned"
    \* a call of write_matsim on its own
    wm_version, wm_attributes_path, wm_vehicles_dir,   \* arguments
    wm_has_vehicles, wm_unique_types, wm_has_electric, \* of the population
    wm_files,                   \* the files written
    wm_log,                     \* the logging calls, in order
    wm_raised,                  \* the exception raised, if any
    wm_pc                       \* "new", "returned" or "raised"

fsVars == <<distribution, frequency, fs_threshold_matrix, fs_threshold_value,
            fs_result, fs_raised, fs_warnings, fs_calls>>

pvVars == <<bins, pivots, total, demand, pivots_supplied, pv_pc, pv_raised,
            pv_result, pv_calls>>

tourVars == <<stops, hour, minute, o_zone, o_activity, d_activity,
              threshold_matrix, threshold_value, d_seq, o_loc, d_zones,
              d_locs, plan, pc, k, stop_duration, start_tm, end_tm, raised>>

pcVars == <<pc_distances, pc_idx, pc_n, pc_result, pc_pc>>

wmVars == <<wm_version, wm_attributes_path, wm_vehicles_dir, wm_has_vehicles,
            wm_unique_types, wm_has_electric, wm_files, wm_log, wm_raised,
            wm_pc>>

vars == <<tourVars, fsVars, pvVars, pcVars, wmVars>>

\* no PlanClusters is under study
PCIdle ==
    /\ pc_distances = <<>>
    /\ pc_idx = 0
    /\ pc_n = 0
    /\ pc_result = <<>>
    /\ pc_pc = "idle"

\* no call of write_matsim is under study
WMIdle ==
    /\ wm_version = <<>>
    /\ wm_attributes_path = <<>>
    /\ wm_vehicles_dir = <<>>
    /\ wm_has_vehicles = FALSE
    /\ wm_unique_types = TRUE
    /\ wm_has_electric = FALSE
    /\ wm_files = {}
    /\ wm_log = <<>>
    /\ wm_raised = "no"
    /\ wm_pc = "idle"

\* no FrequencySampler of its own is under study
FSIdle ==
    /\ distribution = {}
    /\ frequency = <<>>
    /\ fs_threshold_matrix = <<>>
    /\ fs_threshold_value = 0
    /\ fs_result = "unset"
    /\ fs_raised = "no"
    /\ fs_warnings = 0
    /\ fs_calls = 0

\* no PivotDistributionSampler is under study
PVIdle ==
    /\ bins = <<>>
    /\ pivots = <<>>
    /\ total = <<>>
    /\ demand = <<>>
    /\ pivots_supplied = <<>>
    /\ pv_pc = "idle"
    /\ pv_raised = "no"
    /\ pv_result = <<>>
    /\ pv_calls = 0

fields == <<stops, hour, minute, o_zone, o_activity, d_activity,
            threshold_matrix, threshold_value>>

\* (threshold_matrix, threshold_value) pairs handed to the constructor; the
\* value is not read when the matrix is None
ThresholdParams == {<<NoMatrix, -1>>} \cup
                   {<<THRESHOLD_MATRIX, v>> : v \in ThresholdValues}

\* TourPlanner.__init__ ; the plan of the agent is empty
Init ==
    /\ stops \in 0..MaxStops
    /\ hour \in Hours
    /\ minute \in Minutes
    /\ o_zone \in Zones
    /\ \E ap \in ActivityParams : o_activity = ap[1] /\ d_activity = ap[2]
    /\ \E tp \in ThresholdParams :
          threshold_matrix = tp[1] /\ threshold_value = tp[2]
    /\ d_seq = <<>>
    /\ o_loc = 0
    /\ d_zones = <<>>
    /\ d_locs = <<>>
    /\ plan = <<>>
    /\ pc = "Constructed"
    /\ k = 0
    /\ stop_duration = 0
    /\ start_tm = 0
    /\ end_tm = 0
    /\ raised = "no"
    /\ FSIdle
    /\ PVIdle
    /\ PCIdle
    /\ WMIdle

\* no TourPlanner is under study
TourIdle ==
    /\ stops = 0
    /\ hour = 0
    /\ minute = 0
    /\ o_zone = "A"
    /\ o_activity = "depot"
    /\ d_activity = "delivery"
    /\ threshold_matrix = NoMatrix
    /\ threshold_value = -1
    /\ d_seq = <<>>
    /\ o_loc = 0
    /\ d_zones = <<>>
    /\ d_locs = <<>>
    /\ plan = <<>>
    /\ pc = "Idle"
    /\ k = 0
    /\ stop_duration = 0
    /\ start_tm = 0
    /\ end_tm = 0
    /\ raised = "no"

\* ------------------------------------------------ TourPlanner.sequence_stops
\* one entry of d_seq
DSeqItem(j, d_zone, d_facility, oloc) ==
    [stops |-> j, destination_zone |-> d_zone,
     destination_facility |-> d_facility,
     distance |-> model_distance(oloc, d_facility)]

\* the zones one pass of the loop body can draw
DrawZone ==
    IF threshold_matrix = NoMatrix
    THEN FrequencySampler_sample(Zones, D_FREQ)
    ELSE threshold_sample(Zones, D_FREQ, threshold_matrix[o_zone],
                          threshold_value)

\* InsertByDistance without reverse=True: nearest first
InsertByDistance_Ascending(t, x) ==
    LET n == Cardinality({i \in 1..Len(t) : t[i].distance <= x.distance})
    IN  SubSeq(t, 1, n) \o <<x>> \o SubSeq(t, n + 1, Len(t))

\* put x behind the items that are at least as far as x
InsertByDistance(t, x) ==
    LET n == Cardinality({i \in 1..Len(t) : t[i].distance >= x.distance})
    IN  SubSeq(t, 1, n) \o <<x>> \o SubSeq(t, n + 1, Len(t))

RECURSIVE SortByDistance(_)
\* sorted(d_seq, key=distance, reverse=True): stable, farthest first
SortByDistance(s) ==
    IF Len(s) = 0 THEN <<>>
    ELSE InsertByDistance(SortByDistance(SubSeq(s, 1, Len(s) - 1)), s[Len(s)])

\* sequence_stops returns (o_loc, d_zones, d_locs)
SequenceStopsReturns ==
    \E oloc \in facility_sample(o_zone, o_activity) :
    \E zs \in [1..stops -> DrawZone] :
    \E fs \in [1..stops -> UNION {FACILITIES[z] : z \in Zones}] :
       /\ \A j \in 1..stops : fs[j] \in facility_sample(zs[j], d_activity)
       /\ LET seq    == [j \in 1..stops |-> DSeqItem(j - 1, zs[j], fs[j], oloc)]
              sorted == SortByDistance(seq)
          IN  /\ d_seq' = seq
              /\ o_loc' = oloc
              /\ d_zones' = [i \in 1..stops |-> sorted[i].destination_zone]
              /\ d_locs' = [i \in 1..stops |-> sorted[i].destination_facility]
       /\ pc' = "AwaitingOrigin"
       /\ UNCHANGED raised

\* the facility sampler cannot resolve the zone drawn for stop 0
SequenceStopsRaises ==
    /\ stops > 0
    /\ facility_sample(o_zone, o_activity) # {}
    /\ \E z \in DrawZone : facility_sample(z, d_activity) = {}
    /\ pc' = "Raised"
    /\ raised' = "ResolutionFailure"
    /\ UNCHANGED <<d_seq, o_loc, d_zones, d_locs>>

SequenceStops ==
    /\ pc = "Constructed"
    /\ SequenceStopsReturns \/ SequenceStopsRaises
    /\ UNCHANGED <<fields, plan, k, stop_duration, start_tm, end_tm>>
    /\ UNCHANGED <<fsVars, pvVars, pcVars, wmVars>>

\* ---------------------------------------------- TourPlanner.add_tour_activity
\* the branch the activity-type label selects
ActivityBranch(activity_type) ==
    IF activity_type = o_activity THEN "origin"
    ELSE IF activity_type = "return_origin" THEN "return_origin"
    ELSE "stop"

\* the time_params keys a branch reads
BranchKeys(branch) ==
    CASE branch = "origin"        -> {"hour", "minute"}
      [] branch = "return_origin" -> {"start_tm", "end_tm"}
      [] OTHER                    -> {"end_tm", "stop_duration"}

\* ActivitySeq that numbers the later Activities k + 1
ActivitySeq_OffByOne(branch, kk) == IF branch = "origin" THEN 1 ELSE kk + 1

\* seq of the Activity
ActivitySeq(branch, kk) == IF branch = "origin" THEN 1 ELSE kk + 2

\* ActivityAct that labels the final Activity with the branch keyword
ActivityAct_Keyword(branch, activity_type) == activity_type

\* act of the Activity
ActivityAct(branch, activity_type) ==
    IF branch = "return_origin" THEN o_activity ELSE activity_type

\* start_tm of the Activity
ActivityStartTm(branch, time_params) ==
    CASE branch = "origin"        -> 0
      [] branch = "return_origin" -> time_params.start_tm
      [] OTHER                    -> time_params.end_tm

\* ActivityEndTm whose origin branch forgets the minute
ActivityEndTm_NoMinute(branch, time_params) ==
    CASE branch = "origin"        -> time_params.hour * 60
      [] branch = "return_origin" -> time_params.end_tm
      [] OTHER                    -> time_params.end_tm
                                       + IntDiv60(time_params.stop_duration)

\* end_tm of the Activity (an int, or the END_OF_DAY object handed in)
ActivityEndTm(branch, time_params) ==
    CASE branch = "origin"        -> (time_params.hour * 60) + time_params.minute
      [] branch = "return_origin" -> time_params.end_tm
      [] OTHER                    -> time_params.end_tm
                                       + IntDiv60(time_params.stop_duration)

\* end_tm_mtdt: END_OF_DAY itself is kept, anything else goes through mtdt.
\* Only the return_origin branch can be handed the END_OF_DAY object; the
\* other branches compute an int, which is never that object.
ActivityEndTmMtdt(branch, etm) ==
    IF branch = "return_origin" /\ etm = END_OF_DAY THEN etm ELSE mtdt(etm)

\* add_tour_activity: raises KeyError on a missing time_params key, else
\* adds the Activity and returns end_tm
add_tour_activity(kk, zone, loc, activity_type, time_params) ==
    LET branch == ActivityBranch(activity_type)
    IN  IF ~(BranchKeys(branch) \subseteq DOMAIN time_params)
        THEN [raised |-> "KeyError"]
        ELSE LET stm == ActivityStartTm(branch, time_params)
                 etm == ActivityEndTm(branch, time_params)
             IN  [raised |-> "no",
                  entity |-> Activity(ActivitySeq(branch, kk),
                                      ActivityAct(branch, activity_type),
                                      zone, loc, mtdt(stm),
                                      ActivityEndTmMtdt(branch, etm)),
                  end_tm |-> etm]

\* --------------------------------------------------- TourPlanner.add_tour_leg
add_tour_leg(kk, from_zone, from_loc, to_zone, to_loc, stm, etm) ==
    [entity |-> Leg(kk + 1, "car", from_zone, to_zone, from_loc, to_loc,
                    mtdt(stm), mtdt(etm)),
     end_tm |-> etm]

\* ---------------------------------------------- TourPlanner.add_return_origin
\* add_return_origin with the two ends of the Leg swapped
add_return_origin_SwappedEnds(kk, oloc, d_zone, d_loc, etm) ==
    LET trip_distance == model_distance(oloc, d_loc)
        trip_duration == model_journey_time(trip_distance)
        stm           == etm
        arrival       == etm + IntDiv60(trip_duration)
        leg           == add_tour_leg(kk, o_zone, oloc, d_zone, d_loc,
                                      stm, arrival)
        time_params   == [start_tm |-> leg.end_tm, end_tm |-> END_OF_DAY]
        act           == add_tour_activity(kk, o_zone, oloc, "return_origin",
                                           time_params)
    IN  IF act.raised # "no"
        THEN [added |-> <<leg.entity>>, raised |-> act.raised]
        ELSE [added |-> <<leg.entity, act.entity>>, raised |-> "no"]

\* what it adds to the plan (the return Leg, then the origin Activity), and
\* the exception if add_tour_activity raises
add_return_origin(kk, oloc, d_zone, d_loc, etm) ==
    LET trip_distance == model_distance(oloc, d_loc)
        trip_duration == model_journey_time(trip_distance)
        stm           == etm
        arrival       == etm + IntDiv60(trip_duration)
        leg           == add_tour_leg(kk, d_zone, d_loc, o_zone, oloc,
                                      stm, arrival)
        time_params   == [start_tm |-> leg.end_tm, end_tm |-> END_OF_DAY]
        act           == add_tour_activity(kk, o_zone, oloc, "return_origin",
                                           time_params)
    IN  IF act.raised # "no"
        THEN [added |-> <<leg.entity>>, raised |-> act.raised]
        ELSE [added |-> <<leg.entity, act.entity>>, raised |-> "no"]

\* ---------------------------------------------------------- TourPlanner.apply
\* BoundaryCheck that looks at the arrival only
BoundaryCheck_ArrivalOnly(etm, sdur) == DtGeq(mtdt(etm), END_OF_DAY)

\* BoundaryCheck with > in place of >=
BoundaryCheck_Strict(etm, sdur) ==
    \/ ~DtGeq(END_OF_DAY, mtdt(etm))
    \/ ~DtGeq(END_OF_DAY, mtdt(etm + IntDiv60(sdur)))

\* the boundary check of the loop
BoundaryCheck(etm, sdur) ==
    \/ DtGeq(mtdt(etm), END_OF_DAY)
    \/ DtGeq(mtdt(etm + IntDiv60(sdur)), END_OF_DAY)

\* apply_stop that hands add_tour_activity a label of its own for the stop
apply_stop_OwnLabel(kk, dur) ==
    LET leg == IF kk = 0
               THEN add_tour_leg(kk, o_zone, o_loc,
                                 PyIndex(d_zones, kk), PyIndex(d_locs, kk),
                                 dur.start_tm, dur.end_tm)
               ELSE add_tour_leg(kk, PyIndex(d_zones, kk - 1),
                                 PyIndex(d_locs, kk - 1),
                                 PyIndex(d_zones, kk), PyIndex(d_locs, kk),
                                 dur.start_tm, dur.end_tm)
        act == add_tour_activity(kk, PyIndex(d_zones, kk), PyIndex(d_locs, kk),
                                 "stop",
                                 [end_tm |-> leg.end_tm,
                                  stop_duration |-> dur.stop_duration])
    IN  IF act.raised # "no"
        THEN [added |-> <<leg.entity>>, end_tm |-> leg.end_tm,
              raised |-> act.raised]
        ELSE [added |-> <<leg.entity, act.entity>>, end_tm |-> act.end_tm,
              raised |-> "no"]

\* apply_stop whose else branch adds the Leg but not the Activity
apply_stop_ElseNoActivity(kk, dur) ==
    LET leg == IF kk = 0
               THEN add_tour_leg(kk, o_zone, o_loc,
                                 PyIndex(d_zones, kk), PyIndex(d_locs, kk),
                                 dur.start_tm, dur.end_tm)
               ELSE add_tour_leg(kk, PyIndex(d_zones, kk - 1),
                                 PyIndex(d_locs, kk - 1),
                                 PyIndex(d_zones, kk), PyIndex(d_locs, kk),
                                 dur.start_tm, dur.end_tm)
        act == add_tour_activity(kk, PyIndex(d_zones, kk), PyIndex(d_locs, kk),
                                 d_activity,
                                 [end_tm |-> leg.end_tm,
                                  stop_duration |-> dur.stop_duration])
    IN  IF kk # 0
        THEN [added |-> <<leg.entity>>, end_tm |-> leg.end_tm, raised |-> "no"]
        ELSE IF act.raised # "no"
        THEN [added |-> <<leg.entity>>, end_tm |-> leg.end_tm,
              raised |-> act.raised]
        ELSE [added |-> <<leg.entity, act.entity>>, end_tm |-> act.end_tm,
              raised |-> "no"]

\* the two branches (k == 0, else) that add the Leg to stop kk and the stop's
\* Activity: what they add to the plan, the new end_tm, the exception if any
apply_stop(kk, dur) ==
    LET leg == IF kk = 0
               THEN add_tour_leg(kk, o_zone, o_loc,
                                 PyIndex(d_zones, kk), PyIndex(d_locs, kk),
                                 dur.start_tm, dur.end_tm)
               ELSE add_tour_leg(kk, PyIndex(d_zones, kk - 1),
                                 PyIndex(d_locs, kk - 1),
                                 PyIndex(d_zones, kk), PyIndex(d_locs, kk),
                                 dur.start_tm, dur.end_tm)
        act == add_tour_activity(kk, PyIndex(d_zones, kk), PyIndex(d_locs, kk),
                                 d_activity,
                                 [end_tm |-> leg.end_tm,
                                  stop_duration |-> dur.stop_duration])
    IN  IF act.raised # "no"
        THEN [added |-> <<leg.entity>>, end_tm |-> leg.end_tm,
              raised |-> act.raised]
        ELSE [added |-> <<leg.entity, act.entity>>, end_tm |-> act.end_tm,
              raised |-> "no"]

\* the stop add_return_origin is told the agent returns from
ReturnIndex == stops - 1

\* the first Activity, before the loop
ApplyOrigin ==
    /\ pc = "AwaitingOrigin"
    /\ LET r == add_tour_activity(1, o_zone, o_loc, o_activity,
                                  [hour |-> hour, minute |-> minute])
       IN  /\ plan' = agent_add(plan, <<r.entity>>)
           /\ end_tm' = r.end_tm
    /\ k' = 0
    /\ pc' = IF stops = 0 THEN "Returning" ELSE "Touring"
    /\ UNCHANGED <<fields, d_seq, o_loc, d_zones, d_locs, stop_duration,
                   start_tm, raised>>
    /\ UNCHANGED <<fsVars, pvVars, pcVars, wmVars>>

\* TourStop that resolves the facility of stop k anew for the duration
TourStop_Resolves ==
    /\ pc = "Touring"
    /\ \E loc \in facility_sample(PyIndex(d_zones, k), d_activity) :
       LET dur == model_activity_duration(o_loc, loc, end_tm)
       IN  /\ stop_duration' = dur.stop_duration
           /\ start_tm' = dur.start_tm
           /\ IF BoundaryCheck(dur.end_tm, dur.stop_duration)
              THEN \* break
                   /\ end_tm' = dur.end_tm
                   /\ pc' = "Returning"
                   /\ UNCHANGED <<plan, k, raised>>
              ELSE LET r == apply_stop(k, dur)
                   IN  /\ plan' = agent_add(plan, r.added)
                       /\ end_tm' = r.end_tm
                       /\ raised' = r.raised
                       /\ IF r.raised # "no"
                          THEN pc' = "Raised" /\ UNCHANGED k
                          ELSE /\ k' = k + 1
                               /\ pc' = IF k + 1 < stops THEN "Touring"
                                                         ELSE "Returning"
    /\ UNCHANGED <<fields, d_seq, o_loc, d_zones, d_locs>>
    /\ UNCHANGED <<fsVars, pvVars, pcVars, wmVars>>

\* one pass of the loop body, for stop k
TourStop ==
    /\ pc = "Touring"
    /\ LET dur == model_activity_duration(o_loc, PyIndex(d_locs, k), end_tm)
       IN  /\ stop_duration' = dur.stop_duration
           /\ start_tm' = dur.start_tm
           /\ IF BoundaryCheck(dur.end_tm, dur.stop_duration)
              THEN \* break
                   /\ end_tm' = dur.end_tm
                   /\ pc' = "Returning"
                   /\ UNCHANGED <<plan, k, raised>>
              ELSE LET r == apply_stop(k, dur)
                   IN  /\ plan' = agent_add(plan, r.added)
                       /\ end_tm' = r.end_tm
                       /\ raised' = r.raised
                       /\ IF r.raised # "no"
                          THEN pc' = "Raised" /\ UNCHANGED k
                          ELSE /\ k' = k + 1
                               /\ pc' = IF k + 1 < stops THEN "Touring"
                                                         ELSE "Returning"
    /\ UNCHANGED <<fields, d_seq, o_loc, d_zones, d_locs>>
    /\ UNCHANGED <<fsVars, pvVars, pcVars, wmVars>>

\* ReturnOrigin that first moves the end of the last Activity in the plan to
\* the departure time of the return Leg
ReturnOrigin_EditsLast ==
    /\ pc = "Returning"
    /\ IF ~PyIndexOk(d_zones, ReturnIndex) \/ ~PyIndexOk(d_locs, ReturnIndex)
       THEN /\ pc' = "Raised"
            /\ raised' = "IndexError"
            /\ UNCHANGED plan
       ELSE LET r == add_return_origin(stops, o_loc,
                                       PyIndex(d_zones, ReturnIndex),
                                       PyIndex(d_locs, ReturnIndex), end_tm)
            IN  /\ plan' = agent_add([plan EXCEPT
                                        ![Len(plan)].end_time = mtdt(end_tm)],
                                     r.added)
                /\ raised' = r.raised
                /\ pc' = IF r.raised # "no" THEN "Raised" ELSE "Done"
    /\ UNCHANGED <<fields, d_seq, o_loc, d_zones, d_locs, k, stop_duration,
                   start_tm, end_tm>>
    /\ UNCHANGED <<fsVars, pvVars, pcVars, wmVars>>

\* after the loop: add_return_origin, then apply returns
ReturnOrigin ==
    /\ pc = "Returning"
    /\ IF ~PyIndexOk(d_zones, ReturnIndex) \/ ~PyIndexOk(d_locs, ReturnIndex)
       THEN /\ pc' = "Raised"
            /\ raised' = "IndexError"
            /\ UNCHANGED plan
       ELSE LET r == add_return_origin(stops, o_loc,
                                       PyIndex(d_zones, ReturnIndex),
                                       PyIndex(d_locs, ReturnIndex), end_tm)
            IN  /\ plan' = agent_add(plan, r.added)
                /\ raised' = r.raised
                /\ pc' = IF r.raised # "no" THEN "Raised" ELSE "Done"
    /\ UNCHANGED <<fields, d_seq, o_loc, d_zones, d_locs, k, stop_duration,
                   start_tm, end_tm>>
    /\ UNCHANGED <<fsVars, pvVars, pcVars, wmVars>>

Next == SequenceStops \/ ApplyOrigin \/ TourStop \/ ReturnOrigin

Spec == Init /\ [][Next]_vars

\* the caller goes on to apply and apply runs to its end: straight-line code
\* and a loop over range(stops) always take their next step
SpecFair == Spec /\ WF_vars(Next)

\* ------------------------------------------- a FrequencySampler on its own
\* weights of the frequency column
Weights == {0, 2}

\* costs of a threshold_matrix row
RowCosts == {3, 5, 8}

\* threshold values
FSValues == {2, 5}

\* the rows a caller can supply: costs for some of the zones
Rows == UNION {[D -> RowCosts] : D \in SUBSET Zones}

\* FrequencySampler.__init__
InitFS ==
    /\ distribution \in SUBSET Zones
    /\ frequency \in [distribution -> Weights]
    /\ fs_threshold_matrix \in Rows
    /\ fs_threshold_value \in FSValues
    /\ fs_result = "unset"
    /\ fs_raised = "no"
    /\ fs_warnings = 0
    /\ fs_calls = 0
    /\ TourIdle
    /\ PVIdle
    /\ PCIdle
    /\ WMIdle

\* one call of threshold_sample(): it warns and returns None, or returns a
\* drawn element, or random.choices raises because no weight is positive
ThresholdSample ==
    /\ fs_calls < MaxCalls
    /\ fs_calls' = fs_calls + 1
    /\ LET out == threshold_sample(distribution, frequency,
                                   fs_threshold_matrix, fs_threshold_value)
       IN  IF out = {}
           THEN /\ fs_raised' = "ValueError"
                /\ fs_result' = "unset"
                /\ UNCHANGED fs_warnings
           ELSE \E r \in out :
                   /\ fs_result' = r
                   /\ fs_raised' = "no"
                   /\ fs_warnings' = IF r = NoZone THEN fs_warnings + 1
                                                   ELSE fs_warnings
    /\ UNCHANGED <<distribution, frequency, fs_threshold_matrix,
                   fs_threshold_value>>
    /\ UNCHANGED <<tourVars, pvVars, pcVars, wmVars>>

NextFS == ThresholdSample

SpecFS == InitFS /\ [][NextFS]_vars

\* ------------------------------------ a PivotDistributionSampler on its own
\* Python's numbers are exact fractions here, <<numerator, denominator>> in
\* lowest terms with a positive denominator
RECURSIVE GCD(_, _)
GCD(a, b) == IF b = 0 THEN a ELSE GCD(b, a % b)

Rat(n, d) ==
    LET g == GCD(Abs(n), Abs(d))
        sg == IF d < 0 THEN -1 ELSE 1
    IN  <<sg * (n \div g), sg * (d \div g)>>

RInt(n) == <<n, 1>>

RAdd(x, y) == Rat(x[1] * y[2] + y[1] * x[2], x[2] * y[2])

RMul(x, y) == Rat(x[1] * y[1], x[2] * y[2])

\* x / y, for y # 0
RDiv(x, y) == Rat(x[1] * y[2], x[2] * y[1])

\* sum(d.values())
RECURSIVE RSum(_)
RSum(d) ==
    IF DOMAIN d = {}
    THEN RInt(0)
    ELSE LET i == CHOOSE j \in DOMAIN d : TRUE
         IN  RAdd(d[i], RSum([j \in DOMAIN d \ {i} |-> d[j]]))

\* a + (i - ai) * (b - a) / (bi - ai), with the boundary value slipped to b
interpolate_FromB(i, ai, a, bi, b) ==
    RAdd(RInt(b), RDiv(RInt((i - ai) * (b - a)), RInt(bi - ai)))

\* a + (i - ai) * (b - a) / (bi - ai)
interpolate(i, ai, a, bi, b) ==
    RAdd(RInt(a), RDiv(RInt((i - ai) * (b - a)), RInt(bi - ai)))

\* the boundary pivots set to 0 whether supplied or not
BoundaryPivots_Overwrite(b, p) ==
    LET first == b[1]
        past  == b[Len(b)] + 1
        keys  == DOMAIN p \cup {first, past}
    IN  [key \in keys |-> IF key \in {first, past} THEN 0 ELSE p[key]]

\* the boundary pivots inserted with value 1
BoundaryPivots_One(b, p) ==
    LET first == b[1]
        past  == b[Len(b)] + 1
        keys  == DOMAIN p \cup {first, past}
    IN  [key \in keys |-> IF key \in DOMAIN p THEN p[key] ELSE 1]

\* if bins[0] not in pivots: pivots[bins[0]] = 0, and the same for
\* bins[-1] + 1
BoundaryPivots(b, p) ==
    LET first == b[1]
        past  == b[Len(b)] + 1
        keys  == DOMAIN p \cup {first, past}
    IN  [key \in keys |-> IF key \in DOMAIN p THEN p[key] ELSE 0]

\* the pairs pivot_keys[k], pivot_keys[k + 1] of sorted(pivots.keys())
Segments(p) ==
    {s \in (DOMAIN p) \X (DOMAIN p) :
        /\ s[1] < s[2]
        /\ ~ \E key \in DOMAIN p : s[1] < key /\ key < s[2]}

\* the loop over the segments and, within each, over the bins
RawDemand(b, p) ==
    LET binset  == {b[j] : j \in 1..Len(b)}
        covered == {i \in binset :
                       \E s \in Segments(p) : s[1] <= i /\ i < s[2]}
    IN  [i \in covered |->
            LET s == CHOOSE t \in Segments(p) : t[1] <= i /\ i < t[2]
            IN  interpolate(i, s[1], p[s[1]], s[2], p[s[2]])]

\* the rescaling without the multiplication by total
Rescale_NoTotal(d, dist_sum, t) ==
    [i \in DOMAIN d |-> RDiv(d[i], dist_sum)]

\* demand[i] = (demand[i] / dist_sum) * total
Rescale(d, dist_sum, t) ==
    [i \in DOMAIN d |-> RMul(RDiv(d[i], dist_sum), RInt(t))]

\* values of the pivots
PivotValues == {-2, 0, 4}

\* keys of the pivots: below, within and past the bins
PivotKeys == 0..(MaxBins + 1)

\* the pivots a caller can supply
PivotDicts == UNION {[D -> PivotValues] : D \in SUBSET PivotKeys}

\* the contiguous ranges of bins
BinRanges ==
    {[j \in 1..n |-> first + j - 1] : first \in {0, 1}, n \in 1..MaxBins}

\* total: none, or a number
Totals == {<<>>, <<10>>}

\* before PivotDistributionSampler(bins, pivots, total)
InitPV ==
    /\ bins \in BinRanges
    /\ pivots_supplied \in PivotDicts
    /\ pivots = pivots_supplied
    /\ total \in Totals
    /\ demand = <<>>
    /\ pv_pc = "new"
    /\ pv_raised = "no"
    /\ pv_result = <<>>
    /\ pv_calls = 0
    /\ TourIdle
    /\ FSIdle
    /\ PCIdle
    /\ WMIdle

\* PivotDistributionSampler.__init__: the constructor writes the boundary
\* pivots into the caller's dict, fills demand, and with a total rescales
\* it; a zero sum stops it with ZeroDivisionError and no sampler exists
Construct ==
    /\ pv_pc = "new"
    /\ pivots' = BoundaryPivots(bins, pivots)
    /\ LET raw      == RawDemand(bins, pivots')
           dist_sum == RSum(raw)
       IN  IF total = <<>>
           THEN /\ demand' = raw
                /\ pv_pc' = "built"
                /\ pv_raised' = "no"
           ELSE IF dist_sum[1] = 0
                THEN /\ demand' = <<>>
                     /\ pv_pc' = "raised"
                     /\ pv_raised' = "ZeroDivisionError"
                ELSE /\ demand' = Rescale(raw, dist_sum, total[1])
                     /\ pv_pc' = "built"
                     /\ pv_raised' = "no"
    /\ UNCHANGED <<bins, total, pivots_supplied, pv_result, pv_calls>>
    /\ UNCHANGED <<tourVars, fsVars, pcVars, wmVars>>

\* random.choices(keys, weights): a key of positive weight; with a total
\* weight that is not positive it raises ValueError, and with a negative
\* weight among them any key can come out
choices(d) ==
    IF RSum(d)[1] <= 0
    THEN {}
    ELSE IF \E i \in DOMAIN d : d[i][1] < 0
         THEN DOMAIN d
         ELSE {i \in DOMAIN d : d[i][1] > 0}

\* sample()
Sample ==
    /\ pv_pc = "built"
    /\ pv_calls < MaxSamples
    /\ pv_calls' = pv_calls + 1
    /\ IF choices(demand) = {}
       THEN /\ pv_result' = <<>>
            /\ pv_raised' = "ValueError"
       ELSE /\ \E i \in choices(demand) : pv_result' = <<i>>
            /\ pv_raised' = "no"
    /\ UNCHANGED <<bins, pivots, total, demand, pivots_supplied, pv_pc>>
    /\ UNCHANGED <<tourVars, fsVars, pcVars, wmVars>>

NextPV == Construct \/ Sample

SpecPV == InitPV /\ [][NextPV]_vars

\* -------------------------------------------------- a PlanClusters on its own
\* distances are counted in half steps: 0, 1/2 and 1
DistSteps == {0, 1, 2}

\* the Levenshtein distance 1 (1 - ratio of strings with nothing in common)
MaxDist == 2

\* the distances matrices of np plans: symmetric, with a zero diagonal
DistanceMatrices(np) ==
    {d \in [1..np -> [1..np -> DistSteps]] :
        \A i, j \in 1..np : /\ d[i][i] = 0
                           /\ d[i][j] = d[j][i]}

\* distances_no_diagonal: a copy of the matrix with the diagonal set to 1
distances_no_diagonal(dist) ==
    [i \in DOMAIN dist |->
        [j \in DOMAIN dist[i] |-> IF i = j THEN MaxDist ELSE dist[i][j]]]

\* np.argsort(row): the orders of the indices in which the values never
\* decrease; the default sort is not stable, so equal values come in any
\* order
argsort(row) ==
    LET np == Len(row)
    IN  {f \in [1..np -> 1..np] :
            /\ \A i, j \in 1..np : i # j => f[i] # f[j]
            /\ \A i, j \in 1..np : i < j => row[f[i]] <= row[f[j]]}

\* PlanClusters over a population of 2..MaxPlans distinct plans, and the
\* arguments of the call
InitPC ==
    /\ \E np \in 2..MaxPlans :
          /\ pc_distances \in DistanceMatrices(np)
          /\ pc_idx \in 1..np
          /\ pc_n \in 0..np
    /\ pc_result = <<>>
    /\ pc_pc = "new"
    /\ TourIdle
    /\ FSIdle
    /\ PVIdle
    /\ WMIdle

\* get_closest_matches(plan, n)
GetClosestMatches ==
    /\ pc_pc = "new"
    /\ \E order \in argsort(distances_no_diagonal(pc_distances)[pc_idx]) :
          pc_result' = SubSeq(order, 1, Min2(pc_n, Len(order)))
    /\ pc_pc' = "returned"
    /\ UNCHANGED <<pc_distances, pc_idx, pc_n>>
    /\ UNCHANGED <<tourVars, fsVars, pvVars, wmVars>>

NextPC == GetClosestMatches

SpecPC == InitPC /\ [][NextPC]_vars

\* ------------------------------------------------ write_matsim on its own
\* an optional argument: None is <<>>, a value v is <<v>>
Optional(S) == {<<>>} \cup {<<v>> : v \in S}

\* write_vehicles that writes without looking at the vehicle type indices
write_vehicles_NoUniqueCheck(has_vehicles, unique_types, has_electric) ==
    IF has_vehicles
    THEN IF has_electric
         THEN [files |-> {"all_vehicles.xml", "electric_vehicles.xml"},
               log   |-> <<"info: includes electric vehicles",
                           "info: found electric vehicles">>]
         ELSE [files |-> {"all_vehicles.xml"},
               log   |-> <<"info: no electric vehicles">>]
    ELSE [files |-> {}, log |-> <<"warning: no vehicles">>]

\* write_vehicles: the files it writes and the logging calls it makes
write_vehicles(has_vehicles, unique_types, has_electric) ==
    IF has_vehicles
    THEN IF unique_types
         THEN IF has_electric
              THEN [files |-> {"all_vehicles.xml", "electric_vehicles.xml"},
                    log   |-> <<"info: includes electric vehicles",
                                "info: found electric vehicles">>]
              ELSE [files |-> {"all_vehicles.xml"},
                    log   |-> <<"info: no electric vehicles">>]
         ELSE [files |-> {}, log |-> <<"warning: vehicle types not unique">>]
    ELSE [files |-> {}, log |-> <<"warning: no vehicles">>]

\* the logging.warning calls for the two legacy parameters
LegacyWarnings(version, attributes_path) ==
    (IF version # <<>> THEN <<"warning: version">> ELSE <<>>)
    \o (IF attributes_path # <<>> THEN <<"warning: attributes_path">>
                                  ELSE <<>>)

\* the arguments of the call and what the population answers
InitWM ==
    /\ wm_version \in Optional({12})
    /\ wm_attributes_path \in Optional({"attributes.xml"})
    /\ wm_vehicles_dir \in Optional({"vehicles"})
    /\ wm_has_vehicles \in BOOLEAN
    /\ wm_unique_types \in BOOLEAN
    /\ wm_has_electric \in BOOLEAN
    /\ wm_files = {}
    /\ wm_log = <<>>
    /\ wm_raised = "no"
    /\ wm_pc = "new"
    /\ TourIdle
    /\ FSIdle
    /\ PVIdle
    /\ PCIdle

\* write_matsim: the plans file is written first, then the vehicles
WriteMatsim ==
    /\ wm_pc = "new"
    /\ LET legacy == LegacyWarnings(wm_version, wm_attributes_path)
           wv     == write_vehicles(wm_has_vehicles, wm_unique_types,
                                    wm_has_electric)
       IN  IF wm_has_vehicles
           THEN IF wm_vehicles_dir = <<>>
                THEN /\ wm_files' = {"plans.xml"}
                     /\ wm_log' = legacy \o <<"info: includes vehicles">>
                     /\ wm_raised' = "UserWarning"
                     /\ wm_pc' = "raised"
                ELSE /\ wm_files' = {"plans.xml"} \cup wv.files
                     /\ wm_log' = legacy \o <<"info: includes vehicles",
                                             "info: saving vehicles">>
                                         \o wv.log
                     /\ wm_raised' = "no"
                     /\ wm_pc' = "returned"
           ELSE /\ wm_files' = {"plans.xml"}
                /\ wm_log' = legacy
                /\ wm_raised' = "no"
                /\ wm_pc' = "returned"
    /\ UNCHANGED <<wm_version, wm_attributes_path, wm_vehicles_dir,
                   wm_has_vehicles, wm_unique_types, wm_has_electric>>
    /\ UNCHANGED <<tourVars, fsVars, pvVars, pcVars>>

NextWM == WriteMatsim

SpecWM == InitWM /\ [][NextWM]_vars

\* ================================================================ properties
\* minutes since midnight of day 1 that a datetime stands for
DtMinutes(dt) == (dt[1] - 1) * MINUTES_PER_DAY + dt[2] * 60 + dt[3]

IsActivity(e) == e.kind = "Activity"

IsLeg(e) == e.kind = "Leg"

\* apply has returned
Returned == pc = "Done"

\* the loop was left by break, at stop k
Truncated == pc \in {"Returning", "Done"} /\ k < stops

\* sequence_stops has returned
Sequenced == pc # "Constructed" /\ raised # "ResolutionFailure"

\* whole minutes of travel between two locations
TravelMinutes(a, b) == IntDiv60(model_journey_time(model_distance(a, b)))

\* whole minutes of dwell derived from the trip between two locations
DwellMinutes(a, b) ==
    IntDiv60(model_stop_time(model_journey_time(model_distance(a, b)),
                             MAXI, MINI))

\* C1: whenever apply has returned, the last two entities of the plan are a
\* Leg that ends at the origin zone and origin location, then an Activity of
\* the origin activity type at the origin zone and location whose end time
\* is END_OF_DAY.
C1_ReturnCouplet ==
    Returned =>
       /\ Len(plan) >= 2
       /\ LET leg == plan[Len(plan) - 1]
              act == plan[Len(plan)]
          IN  /\ IsLeg(leg)
              /\ leg.end_area = o_zone
              /\ leg.end_loc = o_loc
              /\ IsActivity(act)
              /\ act.act = o_activity
              /\ act.area = o_zone
              /\ act.loc = o_loc
              /\ act.end_time = END_OF_DAY

\* C1 witness: apply returned although the boundary check cut the tour
\* before any stop was visited
C1_Witness == Returned /\ stops >= 1 /\ k = 0 /\ Len(plan) = 3

\* C2: with stops = 0, hour = 8, minute = 0, apply ends without raising and
\* the plan holds exactly the origin Activity (start 0, end 480), a Leg and
\* the final origin Activity that ends at END_OF_DAY.
C2_ZeroStops ==
    (stops = 0 /\ hour = 8 /\ minute = 0 /\ pc \in {"Done", "Raised"}) =>
       /\ raised = "no"
       /\ Len(plan) = 3
       /\ IsActivity(plan[1])
       /\ plan[1].start_time = mtdt(0)
       /\ plan[1].end_time = mtdt(480)
       /\ IsLeg(plan[2])
       /\ IsActivity(plan[3])
       /\ plan[3].end_time = END_OF_DAY

C4_TimesNonDecreasing ==
    Returned =>
       /\ \A i \in 1..Len(plan) : DtGeq(plan[i].end_time, plan[i].start_time)
       /\ \A i \in 1..(Len(plan) - 1) :
             DtGeq(plan[i + 1].start_time, plan[i].end_time)

\* C5: when apply has returned and at least one stop Activity was appended,
\* the return Leg starts at the zone and location of the last appended stop
\* Activity and takes the travel time from that location to the origin.
C5_ReturnFromLastVisited ==
    (Returned /\ Len(plan) >= 5) =>
       LET leg  == plan[Len(plan) - 1]
           last == plan[Len(plan) - 2]
       IN  /\ leg.start_area = last.area
           /\ leg.start_loc = last.loc
           /\ DtMinutes(leg.end_time) - DtMinutes(leg.start_time)
                 = TravelMinutes(last.loc, o_loc)

\* C6: every Leg in the plan comes right after an Activity, starts when that
\* Activity ends, and ends no earlier than it starts.
C6_LegStartsAtPrevEnd ==
    \A i \in 1..Len(plan) :
       IsLeg(plan[i]) =>
          /\ i > 1
          /\ IsActivity(plan[i - 1])
          /\ plan[i].start_time = plan[i - 1].end_time
          /\ DtGeq(plan[i].end_time, plan[i].start_time)

\* the Legs that lead to a stop, in plan order (the return Leg has seq
\* stops + 1)
StopLegs == SelectSeq(plan, LAMBDA e : IsLeg(e) /\ e.seq <= stops)

\* the Activities at a stop, in plan order (the origin Activities have seq 1
\* and stops + 2)
StopActivities ==
    SelectSeq(plan, LAMBDA e : IsActivity(e) /\ e.seq >= 2 /\ e.seq <= stops + 1)

\* C7: the stops in the plan are a prefix of the sequenced stops; every Leg
\* to a stop arrives, and every stop Activity ends, strictly before minute
\* 1440; and once the loop was left at stop k because the arrival or the
\* arrival plus dwell was at or past minute 1440, exactly the stops before k
\* are in the plan, for good.
C7_TruncationKeepsPrefix ==
    /\ Len(StopLegs) <= stops
    /\ Len(StopActivities) <= Len(StopLegs)
    /\ \A j \in 1..Len(StopLegs) :
          /\ StopLegs[j].end_area = d_zones[j]
          /\ StopLegs[j].end_loc = d_locs[j]
          /\ DtMinutes(StopLegs[j].end_time) < MINUTES_PER_DAY
    /\ \A j \in 1..Len(StopActivities) :
          /\ StopActivities[j].area = d_zones[j]
          /\ StopActivities[j].loc = d_locs[j]
          /\ DtMinutes(StopActivities[j].end_time) < MINUTES_PER_DAY
    /\ Truncated =>
          /\ Len(StopLegs) = k
          /\ Len(StopActivities) = k
          /\ \/ end_tm >= MINUTES_PER_DAY
             \/ end_tm + IntDiv60(stop_duration) >= MINUTES_PER_DAY

\* C7 witness: apply returned after the loop was left at stop k although a
\* later stop would have passed the check from the same departure time
C7_Witness ==
    /\ Returned
    /\ Truncated
    /\ Len(plan) = 2 * k + 3
    /\ \E j \in (k + 1)..(stops - 1) :
          LET dur == model_activity_duration(o_loc, PyIndex(d_locs, j), start_tm)
          IN  /\ dur.end_tm < MINUTES_PER_DAY
              /\ dur.end_tm + IntDiv60(dur.stop_duration) < MINUTES_PER_DAY

\* C8: every Leg to a stop lasts the travel time between its own start and
\* end locations, and the stop Activity that follows lasts the dwell derived
\* from that same trip.
C8_TripFromLegStart ==
    \A i \in 1..Len(plan) :
       (IsLeg(plan[i]) /\ plan[i].seq <= stops) =>
          /\ DtMinutes(plan[i].end_time) - DtMinutes(plan[i].start_time)
                = TravelMinutes(plan[i].start_loc, plan[i].end_loc)
          /\ (i < Len(plan) /\ IsActivity(plan[i + 1])) =>
                DtMinutes(plan[i + 1].end_time)
                   - DtMinutes(plan[i + 1].start_time)
                   = DwellMinutes(plan[i].start_loc, plan[i].end_loc)

\* C9: when apply has returned, the plan alternates Activity, Leg, ...,
\* Activity (odd places Activities, even places Legs, odd length), and its
\* first and last Activity are both at o_zone and o_loc with the origin
\* activity type.
C9_Alternation ==
    Returned =>
       /\ Len(plan) % 2 = 1
       /\ \A i \in 1..Len(plan) :
             IF i % 2 = 1 THEN IsActivity(plan[i]) ELSE IsLeg(plan[i])
       /\ \A e \in {plan[1], plan[Len(plan)]} :
             e.area = o_zone /\ e.loc = o_loc /\ e.act = o_activity

\* C9 witness: a returned tour in which two or more stops were visited
C9_Witness == Returned /\ k >= 2 /\ Len(plan) >= 7

\* the one-to-one maps of 1..n onto itself
Bijections(n) ==
    {f \in [1..n -> 1..n] : \A i, j \in 1..n : i # j => f[i] # f[j]}

\* C10: once sequence_stops has returned, d_zones and d_locs have length
\* stops, entry i of both comes from one and the same draw, every draw is
\* used exactly once, and the distances from o_loc never increase along
\* d_locs; draws 500 and 2000 away come back with the one 2000 away first.
C10_FarthestFirst ==
    Sequenced =>
       /\ Len(d_zones) = stops
       /\ Len(d_locs) = stops
       /\ Len(d_seq) = stops
       /\ \E f \in Bijections(stops) :
             \A i \in 1..stops :
                /\ d_zones[i] = d_seq[f[i]].destination_zone
                /\ d_locs[i] = d_seq[f[i]].destination_facility
       /\ \A i \in 1..(stops - 1) :
             Abs(o_loc - d_locs[i]) * SCALE10
                >= Abs(o_loc - d_locs[i + 1]) * SCALE10
       /\ (stops = 2 /\ {Abs(o_loc - d_seq[j].destination_facility) : j \in 1..2}
                           = {500, 2000})
             => Abs(o_loc - d_locs[1]) = 2000

\* C10 witness: the draw 500 away was made first, the draw 2000 away second,
\* and sequence_stops returned them the other way round
C10_Witness ==
    /\ Sequenced
    /\ stops = 2
    /\ Abs(o_loc - d_seq[1].destination_facility) = 500
    /\ Abs(o_loc - d_seq[2].destination_facility) = 2000
    /\ d_locs = <<d_seq[2].destination_facility, d_seq[1].destination_facility>>

\* C11: the first entity of the plan is an Activity with seq 1 and the
\* origin activity type, from minute 0 to minute hour * 60 + minute; a Leg to
\* stop 0, when there is one, departs at minute hour * 60 + minute (at 08:00
\* for hour = 8, minute = 0).
C11_FirstActivity ==
    /\ Len(plan) >= 1 =>
          /\ IsActivity(plan[1])
          /\ plan[1].seq = 1
          /\ plan[1].act = o_activity
          /\ plan[1].start_time = <<1, 0, 0>>
          /\ DtMinutes(plan[1].start_time) = 0
          /\ DtMinutes(plan[1].end_time) = hour * 60 + minute
    /\ (Len(plan) >= 2 /\ IsLeg(plan[2]) /\ plan[2].seq <= stops
           /\ plan[2].end_loc = d_locs[1]) =>
          /\ DtMinutes(plan[2].start_time) = hour * 60 + minute
          /\ (hour = 8 /\ minute = 0) => plan[2].start_time = <<1, 8, 0>>

\* C11 witness: a tour that started at 08:00 and whose stop 0 passed the
\* boundary check
C11_Witness ==
    /\ hour = 8
    /\ minute = 0
    /\ Len(plan) >= 3
    /\ IsLeg(plan[2])
    /\ plan[2].seq = 1
    /\ plan[2].start_time = <<1, 8, 0>>

\* the entities of the return couplet, once apply has returned
IsReturnCouplet(i) == Returned /\ i >= Len(plan) - 1

\* C12: while apply runs and after it has returned, the Leg to stop j has
\* seq j + 1 and the Activity at stop j has seq j + 2 (stops counted from 0,
\* in plan order), the return Leg has seq stops + 1 and the final Activity
\* seq stops + 2; the seq of the Activities starts at 1 and strictly
\* increases along the plan, and so does the seq of the Legs.
C12_SequenceNumbers ==
    /\ pc # "Raised" =>
          \A i \in 1..Len(plan) :
             IF IsReturnCouplet(i)
             THEN plan[i].seq = IF IsLeg(plan[i]) THEN stops + 1 ELSE stops + 2
             ELSE IF i = 1 THEN plan[i].seq = 1
             ELSE IF IsLeg(plan[i]) THEN plan[i].seq = ((i \div 2) - 1) + 1
             ELSE plan[i].seq = (((i - 1) \div 2) - 1) + 2
    /\ \A i, j \in 1..Len(plan) :
          (i < j /\ plan[i].kind = plan[j].kind) => plan[i].seq < plan[j].seq

\* C12 witness: a returned tour cut short after one or more visited stops,
\* so that the numbering jumps from the last visited stop to stops + 1
C12_Witness ==
    /\ Returned
    /\ Truncated
    /\ k >= 1
    /\ plan[Len(plan)].seq = stops + 2
    /\ plan[Len(plan) - 2].seq < stops + 1

NoCandidate ==
    /\ threshold_matrix # NoMatrix
    /\ \A z \in Zones : threshold_matrix[o_zone][z] > threshold_value

\* C14: with a threshold matrix in which no zone is within the threshold of
\* the origin zone and one stop or more to draw, sequence_stops ends in the
\* resolution failure of the facility sampler, returns no stop list, and
\* the plan holds no entity.
C14_NoCandidateFailsWhole ==
    (NoCandidate /\ stops >= 1 /\ pc # "Constructed") =>
       /\ pc = "Raised"
       /\ raised = "ResolutionFailure"
       /\ d_zones = <<>>
       /\ d_locs = <<>>
       /\ plan = <<>>

\* C14 witness: sequence_stops has failed that way
C14_Witness ==
    /\ NoCandidate
    /\ stops >= 1
    /\ pc = "Raised"
    /\ raised = "ResolutionFailure"
    /\ plan = <<>>

\* the threshold value is lower than every cost of the row
BelowEveryCost ==
    \A z \in DOMAIN fs_threshold_matrix :
       fs_threshold_value < fs_threshold_matrix[z]

\* the elements of the distribution whose cost is in the row and within the
\* threshold
Eligible ==
    {z \in distribution :
        /\ z \in DOMAIN fs_threshold_matrix
        /\ fs_threshold_matrix[z] <= fs_threshold_value}

\* C15: a call of threshold_sample() on a sampler whose threshold value is
\* lower than every cost of its row returns None, raises nothing, warns
\* once, and leaves distribution, frequency, threshold matrix and threshold
\* value as they were.
C15_BelowEveryCostReturnsNone ==
    [][(BelowEveryCost /\ fs_calls' = fs_calls + 1) =>
          /\ fs_result' = NoZone
          /\ fs_raised' = "no"
          /\ fs_warnings' = fs_warnings + 1
          /\ UNCHANGED <<distribution, frequency, fs_threshold_matrix,
                         fs_threshold_value>>]_vars

\* C15 witness: such a call has returned None, on a sampler with a non-empty
\* distribution of positive weights and a cost for each of its elements
C15_Witness ==
    /\ BelowEveryCost
    /\ fs_calls >= 1
    /\ fs_result = NoZone
    /\ fs_warnings >= 1
    /\ distribution # {}
    /\ distribution \subseteq DOMAIN fs_threshold_matrix
    /\ \A z \in distribution : frequency[z] > 0

\* C16: what threshold_sample() returned, if not None, is an element of the
\* distribution whose cost is in the row and at most the threshold value;
\* it returned None only when no element is eligible.
C16_ResultWithinThreshold ==
    fs_calls >= 1 =>
       /\ fs_result \notin {NoZone, "unset"} =>
             /\ fs_result \in distribution
             /\ fs_result \in DOMAIN fs_threshold_matrix
             /\ fs_threshold_matrix[fs_result] <= fs_threshold_value
       /\ fs_result = NoZone => Eligible = {}
       /\ fs_result = "unset" => fs_raised # "no"

\* C16 witness: the element returned costs exactly the threshold value, and
\* another element of the distribution costs more
C16_Witness ==
    /\ fs_calls >= 1
    /\ fs_result \in distribution
    /\ fs_threshold_matrix[fs_result] = fs_threshold_value
    /\ \E z \in distribution :
          /\ z \in DOMAIN fs_threshold_matrix
          /\ fs_threshold_matrix[z] > fs_threshold_value

\* the bins as a set
BinSet == {bins[j] : j \in 1..Len(bins)}

FirstBin == bins[1]

LastBin == bins[Len(bins)]

\* the pivot keys adjacent to bin i: the largest at or below it, the
\* smallest above it
KeyBelow(i) ==
    CHOOSE ka \in DOMAIN pivots :
       /\ ka <= i
       /\ \A key \in DOMAIN pivots : key <= i => key <= ka

KeyAbove(i) ==
    CHOOSE kb \in DOMAIN pivots :
       /\ i < kb
       /\ \A key \in DOMAIN pivots : i < key => kb <= key

\* pivot_a + (i - ka) * (pivot_b - pivot_a) / (kb - ka) as numerator over
\* denominator kb - ka
InterpNum(i) ==
    LET ka == KeyBelow(i)
        kb == KeyAbove(i)
    IN  pivots[ka] * (kb - ka) + (i - ka) * (pivots[kb] - pivots[ka])

InterpDen(i) == KeyAbove(i) - KeyBelow(i)

\* the fraction x equals n / d
IsValue(x, n, d) == x[1] * d = n * x[2]

Interpolated ==
    \A i \in BinSet :
       /\ IsValue(demand[i], InterpNum(i), InterpDen(i))
       /\ i \in DOMAIN pivots => demand[i] = <<pivots[i], 1>>

\* C17 as stated: after any construction the demand has one entry per bin
\* and each value is the interpolation between the adjacent pivots.
C17_Original ==
    pv_pc = "built" =>
       /\ DOMAIN demand = BinSet
       /\ Interpolated

\* C17: after construction the demand has exactly one entry for every bin
\* and for no other key; when no total was given, the value of bin i with
\* adjacent pivot keys ka <= i < kb is
\* pivot_a + (i - ka) * (pivot_b - pivot_a) / (kb - ka), so a bin that is a
\* pivot key has its pivot value.
C17_Interpolation ==
    pv_pc = "built" =>
       /\ DOMAIN demand = BinSet
       /\ total = <<>> => Interpolated

\* C17 witness: a sampler built without a total in which one bin is a
\* supplied pivot key of non-zero value and another lies strictly between
\* two pivot keys with a value that is not a whole number
C17_Witness ==
    /\ pv_pc = "built"
    /\ total = <<>>
    /\ \E i \in BinSet :
          /\ i \in DOMAIN pivots_supplied
          /\ pivots_supplied[i] # 0
    /\ \E i \in BinSet :
          /\ i \notin DOMAIN pivots
          /\ demand[i][2] > 1

\* the value of bin i before rescaling
RawValue(i) == Rat(InterpNum(i), InterpDen(i))

RawSum == RSum([i \in BinSet |-> RawValue(i)])

\* C18: constructed with a total, when the raw values have a non-zero sum
\* every bin value is its raw value divided by the raw sum and multiplied
\* by total and the values sum to total; when the raw sum is zero the
\* construction fails with ZeroDivisionError.
C18_RescaledToTotal ==
    (pv_pc # "new" /\ total # <<>>) =>
       IF RawSum[1] # 0
       THEN /\ pv_pc = "built"
            /\ DOMAIN demand = BinSet
            /\ \A i \in BinSet :
                  demand[i] = RMul(RDiv(RawValue(i), RawSum), RInt(total[1]))
            /\ RSum(demand) = RInt(total[1])
       ELSE /\ pv_pc = "raised"
            /\ pv_raised = "ZeroDivisionError"

\* C18 witness: a sampler built with a total over three bins whose raw
\* values differ and do not already sum to the total
C18_Witness ==
    /\ pv_pc = "built"
    /\ total # <<>>
    /\ Len(bins) >= 3
    /\ RawSum # RInt(total[1])
    /\ \E i, j \in BinSet : demand[i] # demand[j] /\ demand[i][1] # 0
                                                  /\ demand[j][1] # 0

\* the zero-sum case of C18 happens with pivots that are not all zero
C18_ZeroSumRaised ==
    /\ pv_pc = "raised"
    /\ \E key \in DOMAIN pivots_supplied : pivots_supplied[key] # 0

\* no supplied pivot is negative
NonNegativePivots ==
    \A key \in DOMAIN pivots_supplied : pivots_supplied[key] >= 0

\* C19 as stated: built without a total from non-negative pivots, no bin
\* value is negative, the first bin is 0 when it was not a supplied pivot,
\* and the last bin is 0 when one-past-the-last was not a supplied pivot.
C19_Original ==
    (pv_pc = "built" /\ total = <<>> /\ NonNegativePivots) =>
       /\ \A i \in BinSet : demand[i][1] >= 0
       /\ FirstBin \notin DOMAIN pivots_supplied => demand[FirstBin][1] = 0
       /\ (LastBin + 1) \notin DOMAIN pivots_supplied
             => demand[LastBin][1] = 0

\* C19: built without a total from non-negative pivots, no bin value is
\* negative; the first bin is 0 when it was not a supplied pivot; when
\* one-past-the-last was not a supplied pivot the zero sits at that key,
\* outside the domain, and the last bin holds the preceding pivot's value
\* divided by its distance to that key.
C19_BoundaryPivots ==
    (pv_pc = "built" /\ total = <<>> /\ NonNegativePivots) =>
       /\ \A i \in BinSet : demand[i][1] >= 0
       /\ FirstBin \notin DOMAIN pivots_supplied => demand[FirstBin][1] = 0
       /\ (LastBin + 1) \notin DOMAIN pivots_supplied
             => /\ pivots[LastBin + 1] = 0
                /\ (LastBin + 1) \notin DOMAIN demand
                /\ IsValue(demand[LastBin], pivots[KeyBelow(LastBin)],
                           LastBin + 1 - KeyBelow(LastBin))

\* C19 witness: neither boundary pivot was supplied, the first bin is 0 and
\* the last bin is positive
C19_Witness ==
    /\ pv_pc = "built"
    /\ total = <<>>
    /\ NonNegativePivots
    /\ Len(bins) >= 2
    /\ FirstBin \notin DOMAIN pivots_supplied
    /\ (LastBin + 1) \notin DOMAIN pivots_supplied
    /\ demand[FirstBin][1] = 0
    /\ demand[LastBin][1] > 0

\* time clipped into [mini, maxi]
Clip(time, mini, maxi) ==
    IF time < mini THEN mini
    ELSE IF time > maxi THEN maxi
    ELSE time

\* times and bounds, in seconds, on which model_stop_time is compared with
\* Clip: below, at, between, and above the bounds
ClipTimes == {0, 599, 600, 601, 1800, 3599, 3600, 3601, 7200}

ClipBounds == {0, 600, 1800, 3600}

\* the positions in the plan of the Activities at a stop
StopActivityIndices ==
    {j \in 1..Len(plan) :
        IsActivity(plan[j]) /\ plan[j].seq >= 2 /\ plan[j].seq <= stops + 1}

\* C20: model_stop_time(time, maxi, mini) with mini <= maxi is time clipped
\* into [mini, maxi]; and every stop Activity in the plan starts when the
\* Leg before it arrives and lasts floor(stop_duration / 60) minutes, the
\* stop duration being the trip time from the origin location clipped into
\* the default bounds, which is between 10 and 60 minutes.
C20_StopTimeClipped ==
    /\ \A time \in ClipTimes : \A mini \in ClipBounds : \A maxi \in ClipBounds :
          mini <= maxi =>
             model_stop_time(time, maxi, mini) = Clip(time, mini, maxi)
    /\ \A j \in StopActivityIndices :
          /\ j >= 2
          /\ IsLeg(plan[j - 1])
          /\ plan[j].start_time = plan[j - 1].end_time
          /\ LET lasted == DtMinutes(plan[j].end_time)
                             - DtMinutes(plan[j].start_time)
                 trip   == model_journey_time(model_distance(o_loc,
                                                             plan[j].loc))
             IN  /\ lasted = IntDiv60(Clip(trip, MINI, MAXI))
                 /\ 10 <= lasted
                 /\ lasted <= 60

\* C20 witness: a returned tour with one stop Activity held down to 60
\* minutes and another held up to 10 minutes
C20_Witness ==
    /\ Returned
    /\ \E i, j \in StopActivityIndices :
          /\ DtMinutes(plan[i].end_time) - DtMinutes(plan[i].start_time) = 60
          /\ TravelMinutes(o_loc, plan[i].loc) > 60
          /\ DtMinutes(plan[j].end_time) - DtMinutes(plan[j].start_time) = 10
          /\ TravelMinutes(o_loc, plan[j].loc) < 10

\* C21: for n smaller than the number of plans, get_closest_matches returns
\* n plans and the query plan is none of them.
C21_NeverTheQueryPlan ==
    (pc_pc = "returned" /\ pc_n < Len(pc_distances)) =>
       /\ Len(pc_result) = pc_n
       /\ \A j \in 1..Len(pc_result) : pc_result[j] # pc_idx

\* what holds of C21: the query plan is returned only in a tie, when some of
\* the n plans had to be taken among those at distance 1
C21_OnlyInATie ==
    (pc_pc = "returned" /\ pc_n < Len(pc_distances)) =>
       /\ Len(pc_result) = pc_n
       /\ (\E j \in 1..Len(pc_result) : pc_result[j] = pc_idx) =>
             Cardinality({i \in 1..Len(pc_distances) :
                             i # pc_idx /\ pc_distances[pc_idx][i] < MaxDist})
                < pc_n

\* the vehicle files among the files written
VehicleFiles == wm_files \cap {"all_vehicles.xml", "electric_vehicles.xml"}

\* C22 as stated: UserWarning exactly when the population includes vehicles
\* and vehicles_dir is None; with vehicles and a vehicles_dir the vehicle
\* files are written; without vehicles nothing is raised and no vehicle
\* file is written.
C22_Original ==
    wm_pc # "new" =>
       /\ wm_raised = "UserWarning"
             <=> (wm_has_vehicles /\ wm_vehicles_dir = <<>>)
       /\ (wm_has_vehicles /\ wm_vehicles_dir # <<>>)
             => "all_vehicles.xml" \in wm_files
       /\ ~wm_has_vehicles => (wm_raised = "no" /\ VehicleFiles = {})

\* C22: UserWarning is raised exactly when the population includes vehicles
\* and vehicles_dir is None; with vehicles and a vehicles_dir nothing is
\* raised, the all-vehicles file is written exactly when the vehicle types
\* are uniquely indexed, and the electric-vehicles file exactly when they
\* are and the population has electric vehicles; without vehicles nothing
\* is raised and no vehicle file is written; a raise writes no vehicle file.
C22_VehicleFiles ==
    wm_pc # "new" =>
       /\ wm_raised = "UserWarning"
             <=> (wm_has_vehicles /\ wm_vehicles_dir = <<>>)
       /\ wm_raised \in {"no", "UserWarning"}
       /\ (wm_has_vehicles /\ wm_vehicles_dir # <<>>) =>
             /\ "all_vehicles.xml" \in wm_files <=> wm_unique_types
             /\ "electric_vehicles.xml" \in wm_files
                   <=> (wm_unique_types /\ wm_has_electric)
       /\ ~wm_has_vehicles => VehicleFiles = {}
       /\ wm_raised # "no" => VehicleFiles = {}

\* C22 witness: a population with vehicles, some electric, written with a
\* vehicles_dir: both vehicle files are there
C22_Witness ==
    /\ wm_pc = "returned"
    /\ wm_has_vehicles
    /\ wm_vehicles_dir # <<>>
    /\ VehicleFiles = {"all_vehicles.xml", "electric_vehicles.xml"}

\* the boundary check of stop k passes: arrival and arrival plus dwell are
\* both before minute 1440
CheckPasses ==
    LET arrival == end_tm + TravelMinutes(o_loc, d_locs[k + 1])
    IN  /\ arrival < MINUTES_PER_DAY
        /\ arrival + DwellMinutes(o_loc, d_locs[k + 1]) < MINUTES_PER_DAY

\* one step of AwaitingOrigin -> Touring(0..stops-1) -> Returning -> Done
StateMachineStep ==
    /\ pc = "AwaitingOrigin" =>
          /\ pc' = IF stops = 0 THEN "Returning" ELSE "Touring"
          /\ k' = 0
    /\ pc = "Touring" =>
          /\ k < stops
          /\ IF CheckPasses
             THEN /\ Len(plan') = Len(plan) + 2
                  /\ SubSeq(plan', 1, Len(plan)) = plan
                  /\ IsLeg(plan'[Len(plan) + 1])
                  /\ IsActivity(plan'[Len(plan) + 2])
                  /\ k' = k + 1
                  /\ pc' = IF k + 1 < stops THEN "Touring" ELSE "Returning"
             ELSE /\ plan' = plan
                  /\ pc' = "Returning"
    /\ pc = "Returning" =>
          /\ Len(plan') = Len(plan) + 2
          /\ SubSeq(plan', 1, Len(plan)) = plan
          /\ IsLeg(plan'[Len(plan) + 1])
          /\ IsActivity(plan'[Len(plan) + 2])
          /\ pc' = "Done"
    /\ pc \in {"Returning", "Done"} => pc' # "Touring"
    /\ pc = "Done" => pc' = "Done"

\* C23: every step of apply is a step of the state machine
\* AwaitingOrigin -> Touring(0..stops-1) -> Returning -> Done: a passed
\* boundary check appends one Leg then one Activity and moves on to the next
\* stop or to Returning, a failed check appends nothing and moves to
\* Returning, Returning appends the return couplet and moves to Done, and
\* Touring is not entered again.
C23_StateMachine == [][StateMachineStep]_vars

\* the labels take add_tour_activity to the branch meant for them: the
\* destination label is not the origin label and neither is the keyword
\* "return_origin"
BranchesApart ==
    /\ d_activity # o_activity
    /\ o_activity # "return_origin"
    /\ d_activity # "return_origin"

\* what holds of C23: the steps are those of the state machine in the runs
\* with at least one stop and labels that keep the branches apart
C23_WithStopsAndTwoLabels ==
    [][(stops >= 1 /\ BranchesApart) => StateMachineStep]_vars

\* and under SpecFair those runs of apply reach Done
C23_EventuallyDone ==
    (pc = "AwaitingOrigin" /\ stops >= 1 /\ BranchesApart) ~> (pc = "Done")

\* the positions in the plan of the Legs that lead to a stop
StopLegIndices ==
    {j \in 1..Len(plan) : IsLeg(plan[j]) /\ plan[j].seq <= stops}

\* C24: every Leg to a stop arrives strictly before END_OF_DAY and every
\* stop Activity ends strictly before END_OF_DAY; when hour * 60 + minute is
\* at or past the end of the day the plan holds no stop at all.
C24_StopsBeforeEndOfDay ==
    /\ \A j \in StopLegIndices : ~DtGeq(plan[j].end_time, END_OF_DAY)
    /\ \A j \in StopActivityIndices : ~DtGeq(plan[j].end_time, END_OF_DAY)
    /\ hour * 60 + minute >= MINUTES_PER_DAY =>
          (StopLegIndices = {} /\ StopActivityIndices = {})

\* C24 witness: a tour of two stops that starts at 24:00 has returned with
\* the origin Activity and the return couplet only
C24_Witness ==
    /\ Returned
    /\ stops = 2
    /\ hour * 60 + minute >= MINUTES_PER_DAY
    /\ Len(plan) = 3
    /\ plan[1].end_time = END_OF_DAY

\* C24 also covers the stops that do fit: one ends in the last hour of the
\* day
C24_LateStopReached ==
    /\ Returned
    /\ \E j \in StopActivityIndices : plan[j].end_time[2] = 23

\* C25: in every pass of the loop the stop is left out exactly when arrival
\* plus dwell is at or past END_OF_DAY; an arrival at or past END_OF_DAY
\* is always such a pass, so the first part of the check decides nothing.
C25_SecondPartDecides ==
    [][pc = "Touring" =>
          LET arrival == end_tm + TravelMinutes(o_loc, d_locs[k + 1])
              dwell   == DwellMinutes(o_loc, d_locs[k + 1])
              first   == DtGeq(mtdt(arrival), END_OF_DAY)
              second  == DtGeq(mtdt(arrival + dwell), END_OF_DAY)
          IN  /\ first => second
              /\ dwell >= 10
              /\ (plan' = plan /\ pc' = "Returning") <=> second]_vars

\* C25 witness: the loop was left at a stop whose arrival alone was at or
\* past END_OF_DAY
C25_Witness ==
    /\ Truncated
    /\ end_tm >= MINUTES_PER_DAY
    /\ DtGeq(mtdt(end_tm), END_OF_DAY)
    /\ DtGeq(mtdt(end_tm + IntDiv60(stop_duration)), END_OF_DAY)

\* C26: with the destination label equal to the origin label the stop
\* Activity takes the origin branch, whose keys hour and minute are not in
\* the stop's time_params; so the first stop that passes the boundary check
\* is stop 0, apply fails there with KeyError after the origin Activity and
\* the first Leg, and the plan stays at those two entities, without a
\* return couplet.
C26_EqualLabelsFailAtFirstStop ==
    [][d_activity = o_activity =>
          /\ ActivityBranch(d_activity) = "origin"
          /\ ~({"hour", "minute"} \subseteq {"end_tm", "stop_duration"})
          /\ (pc = "Touring" /\ CheckPasses) =>
                /\ k = 0
                /\ Len(plan) = 1
                /\ pc' = "Raised"
                /\ raised' = "KeyError"
                /\ Len(plan') = 2
                /\ plan'[1] = plan[1]
                /\ IsLeg(plan'[2])
                /\ plan'[2].seq = 1
          /\ (pc' = "Raised" /\ raised' = "KeyError") =>
                /\ Len(plan') = 2
                /\ IsActivity(plan'[1])
                /\ IsLeg(plan'[2])
          /\ pc' = "Done" => (stops >= 1 /\ StopLegIndices = {})]_vars

\* C26 witness: apply has failed with KeyError under equal labels, leaving
\* the origin Activity and the first Leg
C26_Witness ==
    /\ d_activity = o_activity
    /\ pc = "Raised"
    /\ raised = "KeyError"
    /\ Len(plan) = 2
    /\ IsActivity(plan[1])
    /\ plan[1].seq = 1
    /\ IsLeg(plan[2])

\* what apply adds after the loop and how it ends, as a function of the
\* plan so far and the current end_tm
ApplyFinish(etm, acc) ==
    IF ~PyIndexOk(d_zones, ReturnIndex) \/ ~PyIndexOk(d_locs, ReturnIndex)
    THEN [plan |-> acc, outcome |-> "IndexError"]
    ELSE LET r == add_return_origin(stops, o_loc,
                                    PyIndex(d_zones, ReturnIndex),
                                    PyIndex(d_locs, ReturnIndex), etm)
         IN  [plan    |-> acc \o r.added,
              outcome |-> IF r.raised # "no" THEN r.raised ELSE "Done"]

\* the loop from stop kk on, as a function of the same
RECURSIVE ApplyLoop(_, _, _)
ApplyLoop(kk, etm, acc) ==
    IF kk >= stops
    THEN ApplyFinish(etm, acc)
    ELSE LET dur == model_activity_duration(o_loc, PyIndex(d_locs, kk), etm)
         IN  IF BoundaryCheck(dur.end_tm, dur.stop_duration)
             THEN ApplyFinish(dur.end_tm, acc)
             ELSE LET r == apply_stop(kk, dur)
                  IN  IF r.raised # "no"
                      THEN [plan |-> acc \o r.added, outcome |-> r.raised]
                      ELSE ApplyLoop(kk + 1, r.end_tm, acc \o r.added)

\* the entities apply appends and how it ends, as a function of the fields
\* of the planner and of the arguments o_loc, d_zones, d_locs
ApplyResult ==
    LET r == add_tour_activity(1, o_zone, o_loc, o_activity,
                               [hour |-> hour, minute |-> minute])
    IN  ApplyLoop(0, r.end_tm, <<r.entity>>)

\* apply is running or has ended
InApply ==
    \/ pc \in {"Touring", "Returning", "Done"}
    \/ pc = "Raised" /\ raised \in {"KeyError", "IndexError"}

\* the plan is what the function says, whole once apply has ended and a
\* leading part of it before
PlanIsFunctionOfInputs ==
    /\ pc = "AwaitingOrigin" =>
          /\ plan = <<>>
          /\ Len(d_seq) = stops
          /\ Len(d_zones) = stops
          /\ Len(d_locs) = stops
    /\ InApply =>
          /\ Len(plan) <= Len(ApplyResult.plan)
          /\ plan = SubSeq(ApplyResult.plan, 1, Len(plan))
    /\ pc = "Done" =>
          (plan = ApplyResult.plan /\ ApplyResult.outcome = "Done")
    /\ (pc = "Raised" /\ InApply) =>
          (plan = ApplyResult.plan /\ ApplyResult.outcome = raised)

\* C27: sequence_stops makes the stops + 1 facility resolutions and appends
\* nothing; apply changes none of o_loc, d_zones, d_locs and the draws, and
\* the entities it appends are a function of stops, hour, minute, o_zone,
\* the labels, o_loc, d_zones and d_locs, so two runs on the same values
\* append the same sequence.
C27_ApplyDeterministic ==
    /\ []PlanIsFunctionOfInputs
    /\ [][/\ pc # "Constructed" => UNCHANGED <<fields, d_seq, o_loc, d_zones,
                                               d_locs>>
          /\ pc = "Constructed" => plan' = plan]_vars

\* C27 witness: apply has returned a tour of two stops, one of them in a
\* zone with more than one facility
C27_Witness ==
    /\ Returned
    /\ stops = 2
    /\ Len(plan) = 7
    /\ plan = ApplyResult.plan
    /\ \E j \in 1..stops : Cardinality(FACILITIES[d_zones[j]]) > 1

\* C28: construction leaves in the caller's pivots mapping every entry it
\* had, with the same value, and adds the first bin and one-past-the-last
\* bin with value 0 where they were absent, and nothing else; a call of
\* sample() changes neither the pivots mapping nor the demand.
C28_PivotsMutatedOnce ==
    [][/\ (pv_pc = "new" /\ pv_pc' # "new") =>
             /\ DOMAIN pivots' = DOMAIN pivots \cup {FirstBin, LastBin + 1}
             /\ \A key \in DOMAIN pivots : pivots'[key] = pivots[key]
             /\ \A key \in DOMAIN pivots' \ DOMAIN pivots : pivots'[key] = 0
       /\ pv_calls' = pv_calls + 1 =>
             /\ pivots' = pivots
             /\ demand' = demand]_vars

\* C28 witness: the caller's mapping has grown by both boundary keys, one
\* supplied pivot is not 0, and sample() has returned a bin
C28_Witness ==
    /\ pv_pc = "built"
    /\ pv_calls >= 1
    /\ pv_result # <<>>
    /\ pv_result[1] \in BinSet
    /\ FirstBin \notin DOMAIN pivots_supplied
    /\ (LastBin + 1) \notin DOMAIN pivots_supplied
    /\ DOMAIN pivots = DOMAIN pivots_supplied \cup {FirstBin, LastBin + 1}
    /\ \E key \in DOMAIN pivots_supplied : pivots_supplied[key] # 0

====
